---------------------------- MODULE Spec2Model ----------------------------
(***************************************************************************)
(* Model of chatbot.py: the bounded, file-persisted ConversationHistory,  *)
(* the lexicon classifiers, the response selector and the main loop.      *)
(*                                                                         *)
(* Representation.  A Python str is a sequence of one-character strings,  *)
(* so that lower(), strip(), split() and the substring test are computed  *)
(* as the source computes them.  A Python tuple (speaker, text,           *)
(* sentiment) is a TLA+ tuple of three such strings.  A JSON value of the *)
(* history file is a tagged record [t, v]: the tag keeps a JSON array, a  *)
(* JSON string and a JSON object apart, which json.load does as well.     *)
(* Characters outside ASCII (the dash of one fallback, the emojis) are    *)
(* written with ASCII stand-ins; no operation of the program inspects     *)
(* them.                                                                   *)
(***************************************************************************)
EXTENDS Integers, Sequences, FiniteSets, TLC

(***************************************************************************)
(* Bounds of the model.                                                    *)
(***************************************************************************)
\* largest capacity (max_size) a ConversationHistory is constructed with
MaxCapacity == 2
\* number of add calls followed by the append log of the store specification
MaxAdds == 4
\* capacity of the history of a session (stands in for the default, 10)
SessionCapacity == 2
\* number of input lines read in a session
MaxInputs == 3

(***************************************************************************)
(* str methods used by the program.                                        *)
(***************************************************************************)
UPPERCASE ==
    <<"A","B","C","D","E","F","G","H","I","J","K","L","M",
      "N","O","P","Q","R","S","T","U","V","W","X","Y","Z">>

LOWERCASE ==
    <<"a","b","c","d","e","f","g","h","i","j","k","l","m",
      "n","o","p","q","r","s","t","u","v","w","x","y","z">>

\* characters str.strip() and str.split() treat as whitespace
WHITESPACE == {" ", "\t"}

\* the argument of word.strip(".,!?;:") in analyze_sentiment
PUNCTUATION == {".", ",", "!", "?", ";", ":"}

LowerChar(c) ==
    IF \E i \in 1..Len(UPPERCASE) : UPPERCASE[i] = c
    THEN LOWERCASE[CHOOSE i \in 1..Len(UPPERCASE) : UPPERCASE[i] = c]
    ELSE c

\* s.lower()
lower(s) == [i \in 1..Len(s) |-> LowerChar(s[i])]

RECURSIVE lstrip(_, _)
lstrip(s, chars) ==
    IF s # <<>> /\ Head(s) \in chars THEN lstrip(Tail(s), chars) ELSE s

RECURSIVE rstrip(_, _)
rstrip(s, chars) ==
    IF s # <<>> /\ s[Len(s)] \in chars
    THEN rstrip(SubSeq(s, 1, Len(s) - 1), chars)
    ELSE s

\* s.strip(chars); s.strip() is strip(s, WHITESPACE)
strip(s, chars) == rstrip(lstrip(s, chars), chars)

\* s.split(): the maximal runs of non-whitespace characters, in order
RECURSIVE split(_)
split(s) ==
    LET t == lstrip(s, WHITESPACE) IN
    IF t = <<>> THEN <<>>
    ELSE LET stops == {i \in 1..Len(t) : t[i] \in WHITESPACE}
             n == IF stops = {} THEN Len(t) + 1
                  ELSE CHOOSE i \in stops : \A j \in stops : i <= j
         IN  <<SubSeq(t, 1, n - 1)>> \o split(SubSeq(t, n, Len(t)))

\* sub in s
Contains(sub, s) ==
    \E i \in 1..(Len(s) - Len(sub) + 1) : SubSeq(s, i, i + Len(sub) - 1) = sub

\* s.endswith(suffix)
endswith(s, suffix) ==
    /\ Len(suffix) <= Len(s)
    /\ SubSeq(s, Len(s) - Len(suffix) + 1, Len(s)) = suffix

(***************************************************************************)
(* String literals of the program.                                         *)
(***************************************************************************)
STR_user == <<"u","s","e","r">>
STR_bot == <<"b","o","t">>
STR_positive == <<"p","o","s","i","t","i","v","e">>
STR_negative == <<"n","e","g","a","t","i","v","e">>
STR_neutral == <<"n","e","u","t","r","a","l">>
STR_history == <<"h","i","s","t","o","r","y">>
STR_clear == <<"c","l","e","a","r">>
STR_question == <<"q","u","e","s","t","i","o","n">>
STR_greeting == <<"g","r","e","e","t","i","n","g">>
STR_command == <<"c","o","m","m","a","n","d">>
STR_statement == <<"s","t","a","t","e","m","e","n","t">>

POSITIVE_WORDS ==
    { <<"g","o","o","d">>,
      <<"g","r","e","a","t">>,
      <<"a","w","e","s","o","m","e">>,
      <<"e","x","c","e","l","l","e","n","t">>,
      <<"l","o","v","e">>,
      <<"h","a","p","p","y">>,
      <<"n","i","c","e">>,
      <<"w","o","n","d","e","r","f","u","l">>,
      <<"f","a","n","t","a","s","t","i","c">>,
      <<"a","m","a","z","i","n","g">>,
      <<"b","r","i","l","l","i","a","n","t">>,
      <<"p","e","r","f","e","c","t">>,
      <<"b","e","a","u","t","i","f","u","l">>,
      <<"d","e","l","i","g","h","t","e","d">>,
      <<"t","h","r","i","l","l","e","d">>,
      <<"e","x","c","i","t","e","d">>,
      <<"p","l","e","a","s","e","d">>,
      <<"g","l","a","d">>,
      <<"j","o","y">>,
      <<"s","u","p","e","r","b">> }

NEGATIVE_WORDS ==
    { <<"b","a","d">>,
      <<"t","e","r","r","i","b","l","e">>,
      <<"h","a","t","e">>,
      <<"s","a","d">>,
      <<"a","n","g","r","y">>,
      <<"a","w","f","u","l">>,
      <<"p","o","o","r">>,
      <<"d","i","s","a","p","p","o","i","n","t","e","d">>,
      <<"f","r","u","s","t","r","a","t","e","d">>,
      <<"u","p","s","e","t">>,
      <<"a","n","n","o","y","e","d">>,
      <<"m","i","s","e","r","a","b","l","e">>,
      <<"d","i","s","g","u","s","t","i","n","g">>,
      <<"h","o","r","r","i","b","l","e">>,
      <<"d","r","e","a","d","f","u","l">>,
      <<"d","i","s","l","i","k","e">>,
      <<"w","o","r","s","e">>,
      <<"w","o","r","s","t">>,
      <<"p","a","t","h","e","t","i","c">>,
      <<"u","s","e","l","e","s","s">> }

QUESTION_WORDS ==
    { <<"w","h","a","t">>,
      <<"w","h","e","n">>,
      <<"w","h","e","r","e">>,
      <<"w","h","y">>,
      <<"h","o","w">>,
      <<"w","h","o">>,
      <<"w","h","i","c","h">>,
      <<"c","a","n">>,
      <<"c","o","u","l","d">>,
      <<"w","o","u","l","d">>,
      <<"d","o">>,
      <<"d","i","d">>,
      <<"d","o","e","s">> }

GREETING_WORDS ==
    { <<"h","e","l","l","o">>,
      <<"h","i">>,
      <<"h","e","y">>,
      <<"g","r","e","e","t","i","n","g","s">>,
      <<"w","e","l","c","o","m","e">>,
      <<"s","u","p">>,
      <<"y","o">>,
      <<"h","o","w","d","y">> }

COMMAND_WORDS ==
    { <<"h","i","s","t","o","r","y">>,
      <<"c","l","e","a","r">>,
      <<"h","e","l","p">>,
      <<"e","x","i","t">>,
      <<"q","u","i","t">>,
      <<"b","y","e">> }

EXIT_KEYWORDS ==
    { <<"e","x","i","t">>,
      <<"q","u","i","t">>,
      <<"b","y","e">>,
      <<"g","o","o","d","b","y","e">> }

RESPONSES ==
    << <<<<"h","e","l","l","o">>,
         <<"H","e","l","l","o","!"," ","H","o","w"," ","c","a","n"," ","I"," ","h","e","l","p"," ","y","o","u"," ","t","o","d","a","y","?">>>>,
       <<<<"h","i">>,
         <<"H","i"," ","t","h","e","r","e","!"," ","W","h","a","t"," ","w","o","u","l","d"," ","y","o","u"," ","l","i","k","e"," ","t","o"," ","t","a","l","k"," ","a","b","o","u","t","?">>>>,
       <<<<"h","e","l","p">>,
         <<"I"," ","c","a","n"," ","c","h","a","t"," ","w","i","t","h"," ","y","o","u"," ","a","n","d"," ","r","e","m","e","m","b","e","r"," ","o","u","r"," ","c","o","n","v","e","r","s","a","t","i","o","n","."," ","T","y","p","e"," ","'","h","i","s","t","o","r","y","'"," ","t","o"," ","s","e","e"," ","w","h","a","t"," ","w","e","'","v","e"," ","t","a","l","k","e","d"," ","a","b","o","u","t",","," ","o","r"," ","j","u","s","t"," ","k","e","e","p"," ","c","h","a","t","t","i","n","g","!">>>>,
       <<<<"b","y","e">>,
         <<"G","o","o","d","b","y","e","!"," ","H","a","v","e"," ","a"," ","g","r","e","a","t"," ","d","a","y","!">>>>,
       <<<<"t","h","a","n","k","s">>,
         <<"Y","o","u","'","r","e"," ","w","e","l","c","o","m","e","!">>>>,
       <<<<"t","h","a","n","k"," ","y","o","u">>,
         <<"H","a","p","p","y"," ","t","o"," ","h","e","l","p","!">>>> >>

FALLBACKS ==
    << <<"I","'","m"," ","n","o","t"," ","s","u","r","e"," ","I"," ","u","n","d","e","r","s","t","a","n","d","."," ","C","a","n"," ","y","o","u"," ","r","e","p","h","r","a","s","e","?">>,
       <<"I","n","t","e","r","e","s","t","i","n","g"," ","-","-","-"," ","t","e","l","l"," ","m","e"," ","m","o","r","e",".">>,
       <<"H","m","m",","," ","I"," ","d","o","n","'","t"," ","h","a","v","e"," ","a"," ","g","o","o","d"," ","a","n","s","w","e","r"," ","f","o","r"," ","t","h","a","t"," ","y","e","t",".">> >>

question_responses ==
    << <<"T","h","a","t","'","s"," ","a"," ","g","r","e","a","t"," ","q","u","e","s","t","i","o","n","!"," ","L","e","t"," ","m","e"," ","t","h","i","n","k",".",".",".">>,
       <<"G","o","o","d"," ","q","u","e","s","t","i","o","n","!"," ","I","'","m"," ","n","o","t"," ","s","u","r","e"," ","I"," ","h","a","v","e"," ","a"," ","p","e","r","f","e","c","t"," ","a","n","s","w","e","r",","," ","b","u","t"," ","h","e","r","e","'","s"," ","w","h","a","t"," ","I"," ","t","h","i","n","k",".",".",".">>,
       <<"I","'","m"," ","g","l","a","d"," ","y","o","u"," ","a","s","k","e","d"," ","t","h","a","t",".">>,
       <<"T","h","a","t","'","s"," ","s","o","m","e","t","h","i","n","g"," ","t","o"," ","c","o","n","s","i","d","e","r",".">> >>

greeting_responses ==
    << <<"H","e","l","l","o","!"," ","G","r","e","a","t"," ","t","o"," ","s","e","e"," ","y","o","u","!">>,
       <<"H","i"," ","t","h","e","r","e","!"," ","H","o","w"," ","a","r","e"," ","y","o","u"," ","d","o","i","n","g","?">>,
       <<"H","e","y","!"," ","W","h","a","t","'","s"," ","o","n"," ","y","o","u","r"," ","m","i","n","d","?">>,
       <<"G","r","e","e","t","i","n","g","s","!"," ","W","h","a","t"," ","c","a","n"," ","I"," ","h","e","l","p"," ","w","i","t","h","?">> >>

pos_responses ==
    << <<"T","h","a","t","'","s"," ","w","o","n","d","e","r","f","u","l"," ","t","o"," ","h","e","a","r","!">>,
       <<"I","'","m"," ","g","l","a","d"," ","y","o","u","'","r","e"," ","e","x","c","i","t","e","d","!">>,
       <<"T","h","a","t"," ","s","o","u","n","d","s"," ","a","m","a","z","i","n","g","!">>,
       <<"T","h","a","t","'","s"," ","g","r","e","a","t","!"," ","T","e","l","l"," ","m","e"," ","m","o","r","e",".">> >>

neg_responses ==
    << <<"I","'","m"," ","s","o","r","r","y"," ","t","o"," ","h","e","a","r"," ","t","h","a","t","."," ","T","h","a","t"," ","s","o","u","n","d","s"," ","f","r","u","s","t","r","a","t","i","n","g",".">>,
       <<"I"," ","u","n","d","e","r","s","t","a","n","d","."," ","T","h","a","t"," ","m","u","s","t"," ","b","e"," ","d","i","f","f","i","c","u","l","t",".">>,
       <<"I"," ","f","e","e","l"," ","f","o","r"," ","y","o","u","."," ","I","s"," ","t","h","e","r","e"," ","a","n","y","t","h","i","n","g"," ","I"," ","c","a","n"," ","h","e","l","p"," ","w","i","t","h","?">>,
       <<"T","h","a","t","'","s"," ","t","o","u","g","h","."," ","I","'","m"," ","h","e","r","e"," ","t","o"," ","l","i","s","t","e","n",".">> >>

statement_responses ==
    << <<"T","h","a","t","'","s"," ","i","n","t","e","r","e","s","t","i","n","g","!"," ","T","e","l","l"," ","m","e"," ","m","o","r","e",".">>,
       <<"I"," ","s","e","e","."," ","C","a","n"," ","y","o","u"," ","e","l","a","b","o","r","a","t","e","?">>,
       <<"T","h","a","t"," ","m","a","k","e","s"," ","s","e","n","s","e",".">>,
       <<"I","n","t","e","r","e","s","t","i","n","g"," ","p","e","r","s","p","e","c","t","i","v","e",".">> >>
\* chatbot.py line 279
BANNER ==
    <<"C","h","a","t","b","o","t"," ","w","i","t","h"," ","S","e","n","t","i","m","e","n","t"," ","&"," ","I","n","t","e","n","t"," ","A","n","a","l","y","s","i","s"," ","-","-","-"," ","t","y","p","e"," ","'","h","i","s","t","o","r","y","'"," ","t","o"," ","s","e","e"," ","y","o","u","r"," ","c","h","a","t",","," ","'","c","l","e","a","r","'"," ","t","o"," ","r","e","s","e","t",","," ","o","r"," ","'","e","x","i","t","'"," ","t","o"," ","l","e","a","v","e","\n">>

\* chatbot.py line 289
LISTENING ==
    <<"S","a","y"," ","s","o","m","e","t","h","i","n","g"," ","-","-","-"," ","I","'","m"," ","l","i","s","t","e","n","i","n","g",".">>

\* chatbot.py line 296
FAREWELL ==
    <<"G","o","o","d","b","y","e","!"," ","(","H","i","s","t","o","r","y"," ","s","a","v","e","d"," ","t","o"," ","c","h","a","t","_","h","i","s","t","o","r","y",".","j","s","o","n",")">>

\* chatbot.py line 311
CLEARED ==
    <<"C","o","n","v","e","r","s","a","t","i","o","n"," ","h","i","s","t","o","r","y"," ","c","l","e","a","r","e","d","!">>

\* chatbot.py line 199
NO_HISTORY ==
    <<"N","o"," ","c","o","n","v","e","r","s","a","t","i","o","n"," ","h","i","s","t","o","r","y"," ","y","e","t",".">>

\* chatbot.py line 201
HISTORY_HEADER ==
    <<"-","-","-"," ","C","o","n","v","e","r","s","a","t","i","o","n"," ","H","i","s","t","o","r","y",":">>

\* chatbot.py line 217
SAY_SOMETHING ==
    <<"S","a","y"," ","s","o","m","e","t","h","i","n","g"," ","s","o"," ","I"," ","c","a","n"," ","r","e","s","p","o","n","d","!">>

(***************************************************************************)
(* The history file.  kind says what open() and json.load() meet:         *)
(*   absent       Path.exists() is false                                   *)
(*   unreadable   the path exists, open() raises an OSError (IOError)      *)
(*   undecodable  the bytes are not UTF-8 (UnicodeDecodeError)             *)
(*   invalid      the text is not JSON (JSONDecodeError); this includes    *)
(*                the empty file and any proper prefix of a JSON document  *)
(*   json         the text is the JSON value data                         *)
(***************************************************************************)
JString(s) == [t |-> "string", v |-> s]
JArray(items) == [t |-> "array", v |-> items]
JObject(keys) == [t |-> "object", v |-> keys]
JNumber == [t |-> "number", v |-> <<>>]
JNull == [t |-> "null", v |-> <<>>]

AbsentFile == [kind |-> "absent", data |-> JNull]
UnreadableFile == [kind |-> "unreadable", data |-> JNull]
UndecodableFile == [kind |-> "undecodable", data |-> JNull]
InvalidFile == [kind |-> "invalid", data |-> JNull]
JsonFile(value) == [kind |-> "json", data |-> value]

\* the value json.load hands to Python for an element of an array
PyValue(j) == IF j.t = "string" THEN j.v ELSE j

\* iterating over a JSON string yields its characters, each a str of length 1
Elements(data) ==
    IF data.t = "string"
    THEN [i \in 1..Len(data.v) |-> JString(<<data.v[i]>>)]
    ELSE data.v

\* seq[-n:] for n >= 0; seq[-0:] is seq[0:], the whole sequence
LastSlice(seq, n) ==
    IF n = 0 \/ n >= Len(seq) THEN seq
    ELSE SubSeq(seq, Len(seq) - n + 1, Len(seq))

\* the exception `tuple(msg) if len(msg) == 3 else (msg[0], msg[1], "neutral")`
\* raises for one element msg of the file, "none" when it raises nothing
ConvertError(msg) ==
    IF msg.t \in {"number", "null"} THEN "TypeError"
    ELSE IF Len(msg.v) = 3 THEN "none"
    ELSE IF msg.t = "object" THEN "KeyError"
    ELSE IF Len(msg.v) < 2 THEN "IndexError"
    ELSE "none"

\* variant of Convert: the sentiment is replaced by "neutral" for every record
Convert_Backfill(msg) ==
    LET items == Elements(msg) IN
    IF msg.t = "object" THEN <<msg.v[1], msg.v[2], STR_neutral>>
    ELSE <<PyValue(items[1]), PyValue(items[2]), STR_neutral>>

\* the tuple that expression yields (msg is an array, a string or an object)
Convert(msg) ==
    LET items == Elements(msg) IN
    IF Len(msg.v) = 3
    THEN IF msg.t = "object" THEN <<msg.v[1], msg.v[2], msg.v[3]>>
         ELSE <<PyValue(items[1]), PyValue(items[2]), PyValue(items[3])>>
    ELSE <<PyValue(items[1]), PyValue(items[2]), STR_neutral>>

Returned(msgs) == [exc |-> "none", messages |-> msgs]
Raised(e) == [exc |-> e, messages |-> <<>>]

\* ConversationHistory.load_from_file: the exception that leaves the method
\* and, when there is none, the value of self.messages afterwards.  cur is
\* self.messages before the call.
load_from_file(f, n, cur) ==
    IF f.kind = "absent" THEN Returned(cur)
    ELSE IF f.kind \in {"unreadable", "invalid"} THEN Returned(<<>>)
    ELSE IF f.kind = "undecodable" THEN Raised("UnicodeDecodeError")
    ELSE IF f.data.t \in {"number", "null", "object"} THEN Raised("TypeError")
    ELSE LET part == LastSlice(Elements(f.data), n)
             bad == {i \in 1..Len(part) : ConvertError(part[i]) # "none"}
         IN  IF bad # {}
             THEN Raised(ConvertError(part[CHOOSE i \in bad : \A j \in bad : i <= j]))
             ELSE Returned([i \in 1..Len(part) |-> Convert(part[i])])

\* json.dump(self.messages): a tuple is written as a JSON array
JsonDump(msgs) ==
    JArray([i \in 1..Len(msgs) |->
              JArray([k \in 1..Len(msgs[i]) |-> JString(msgs[i][k])])])

\* variant of save_to_file: a successful write appends the newest turn to the
\* records the file holds instead of rewriting the file
save_to_file_AppendOnly(f, msgs) ==
    { [file |-> IF f.kind = "json" /\ f.data.t = "array" /\ msgs # <<>>
                THEN JsonFile(JArray(f.data.v \o JsonDump(<<msgs[Len(msgs)]>>).v))
                ELSE JsonFile(JsonDump(msgs)),
       warned |-> FALSE],
      [file |-> f, warned |-> TRUE],
      [file |-> InvalidFile, warned |-> TRUE] }

\* ConversationHistory.save_to_file: the file after the call and whether the
\* warning was printed.  open(.., "w") may fail and leave the file as it
\* was; once it has succeeded the file is truncated, and a write that fails
\* afterwards leaves a prefix of the document, which is not JSON.
save_to_file(f, msgs) ==
    { [file |-> JsonFile(JsonDump(msgs)), warned |-> FALSE],
      [file |-> f, warned |-> TRUE],
      [file |-> InvalidFile, warned |-> TRUE] }

\* what a call of add or clear leaves: self.messages, the file, whether the
\* warning was printed and how many times save_to_file was called
Outcomes(msgs, f) ==
    { [messages |-> msgs, file |-> s.file, warned |-> s.warned, saves |-> 1] :
        s \in save_to_file(f, msgs) }

\* variant of AppendEvict: pop() in place of pop(0) removes the newest turn
AppendEvict_PopLast(msgs, turn, n) ==
    LET appended == Append(msgs, turn) IN
    IF Len(appended) > n THEN SubSeq(appended, 1, Len(appended) - 1)
    ELSE appended

\* the list operations of ConversationHistory.add
AppendEvict(msgs, turn, n) ==
    LET appended == Append(msgs, turn) IN
    IF Len(appended) > n THEN Tail(appended) ELSE appended

\* variant of add: the file is written before the oldest turn is evicted
add_SaveFirst(msgs, f, turn, n) ==
    { [messages |-> AppendEvict(msgs, turn, n), file |-> s.file,
       warned |-> s.warned, saves |-> 1] :
        s \in save_to_file(f, Append(msgs, turn)) }

\* variant of add: the file is written once per exchange, with the bot turn
add_BatchedSave(msgs, f, turn, n) ==
    { [messages |-> AppendEvict(msgs, turn, n),
       file |-> IF turn[1] = STR_bot THEN s.file ELSE f,
       warned |-> turn[1] = STR_bot /\ s.warned,
       saves |-> IF turn[1] = STR_bot THEN 1 ELSE 0] :
        s \in save_to_file(f, AppendEvict(msgs, turn, n)) }

\* variant of add: the append is undone when the write fails
add_Rollback(msgs, f, turn, n) ==
    { [messages |-> IF s.warned THEN msgs ELSE AppendEvict(msgs, turn, n),
       file |-> s.file, warned |-> s.warned, saves |-> 1] :
        s \in save_to_file(f, AppendEvict(msgs, turn, n)) }

\* ConversationHistory.add: append, evict the oldest when over capacity, save
add(msgs, f, turn, n) == Outcomes(AppendEvict(msgs, turn, n), f)

\* variant of clear: the list is saved without being emptied
clear_NoReset(msgs, f) == Outcomes(msgs, f)

\* ConversationHistory.clear: empty the list, save
clear(msgs, f) == Outcomes(<<>>, f)

\* get_sentiment_emoji; the three emojis are written [+], [-] and [=]
get_sentiment_emoji(sentiment) ==
    IF sentiment = STR_positive THEN <<"[","+","]">>
    ELSE IF sentiment = STR_negative THEN <<"[","-","]">>
    ELSE <<"[","=","]">>

RECURSIVE JoinLines(_)
JoinLines(ls) ==
    IF Len(ls) = 1 THEN ls[1] ELSE ls[1] \o <<"\n">> \o JoinLines(Tail(ls))

\* ConversationHistory.display
display(msgs) ==
    IF msgs = <<>> THEN NO_HISTORY
    ELSE JoinLines(<<HISTORY_HEADER>> \o
           [i \in 1..Len(msgs) |->
              <<" ", " ">> \o get_sentiment_emoji(msgs[i][3]) \o <<" ">>
              \o (IF msgs[i][1] = STR_user THEN <<"Y","o","u">> ELSE <<"B","o","t">>)
              \o <<":", " ">> \o msgs[i][2]])

(***************************************************************************)
(* Lexicon classifiers and response selection.                             *)
(***************************************************************************)
Count(words, lexicon) ==
    Cardinality({i \in 1..Len(words) : strip(words[i], PUNCTUATION) \in lexicon})

\* variant of analyze_sentiment: a tie of nonzero counts is positive
analyze_sentiment_TiePositive(message) ==
    LET words == split(lower(message))
        pos_count == Count(words, POSITIVE_WORDS)
        neg_count == Count(words, NEGATIVE_WORDS)
    IN  IF pos_count >= neg_count /\ pos_count > 0 THEN STR_positive
        ELSE IF neg_count > pos_count /\ neg_count > 0 THEN STR_negative
        ELSE STR_neutral

analyze_sentiment(message) ==
    LET words == split(lower(message))
        pos_count == Count(words, POSITIVE_WORDS)
        neg_count == Count(words, NEGATIVE_WORDS)
    IN  IF pos_count > neg_count /\ pos_count > 0 THEN STR_positive
        ELSE IF neg_count > pos_count /\ neg_count > 0 THEN STR_negative
        ELSE STR_neutral

\* variant of classify_intent: greetings are tested before commands
classify_intent_GreetingFirst(message) ==
    LET msg_lower == lower(message)
        tokens == split(msg_lower)
        words == {tokens[i] : i \in 1..Len(tokens)}
    IN  IF words \cap GREETING_WORDS # {} THEN STR_greeting
        ELSE IF words \cap COMMAND_WORDS # {} THEN STR_command
        ELSE IF words \cap QUESTION_WORDS # {} \/ endswith(msg_lower, <<"?">>)
             THEN STR_question
        ELSE STR_statement

classify_intent(message) ==
    LET msg_lower == lower(message)
        tokens == split(msg_lower)
        words == {tokens[i] : i \in 1..Len(tokens)}
    IN  IF words \cap COMMAND_WORDS # {} THEN STR_command
        ELSE IF words \cap GREETING_WORDS # {} THEN STR_greeting
        ELSE IF words \cap QUESTION_WORDS # {} \/ endswith(msg_lower, <<"?">>)
             THEN STR_question
        ELSE STR_statement

\* random.choice(pool): any element of the pool
Choice(pool) == {pool[i] : i \in 1..Len(pool)}

\* variant of get_response: the keyword table is consulted only when the
\* intent has no pool of its own
get_response_IntentFirst(message, sentiment, intent) ==
    IF strip(message, WHITESPACE) = <<>> THEN {SAY_SOMETHING}
    ELSE LET msg == lower(message)
             hits == {i \in 1..Len(RESPONSES) : Contains(RESPONSES[i][1], msg)}
         IN  IF intent = STR_question THEN Choice(question_responses)
             ELSE IF intent = STR_greeting THEN Choice(greeting_responses)
             ELSE IF hits # {}
             THEN {RESPONSES[CHOOSE i \in hits : \A j \in hits : i <= j][2]}
             ELSE IF intent = STR_statement
                  THEN IF sentiment = STR_positive THEN Choice(pos_responses)
                       ELSE IF sentiment = STR_negative THEN Choice(neg_responses)
                       ELSE Choice(statement_responses)
             ELSE Choice(FALLBACKS)

\* get_response: the set of strings the call can return
get_response(message, sentiment, intent) ==
    IF strip(message, WHITESPACE) = <<>> THEN {SAY_SOMETHING}
    ELSE LET msg == lower(message)
             hits == {i \in 1..Len(RESPONSES) : Contains(RESPONSES[i][1], msg)}
         IN  IF hits # {}
             THEN {RESPONSES[CHOOSE i \in hits : \A j \in hits : i <= j][2]}
             ELSE IF intent = STR_question THEN Choice(question_responses)
             ELSE IF intent = STR_greeting THEN Choice(greeting_responses)
             ELSE IF intent = STR_statement
                  THEN IF sentiment = STR_positive THEN Choice(pos_responses)
                       ELSE IF sentiment = STR_negative THEN Choice(neg_responses)
                       ELSE Choice(statement_responses)
             ELSE Choice(FALLBACKS)

(***************************************************************************)
(* State.                                                                  *)
(*   max_size, messages   fields of the ConversationHistory                *)
(*   file                 content of history_file                          *)
(*   pc                   "new" before the ConversationHistory exists;     *)
(*                        store: "ready", "raised"; main: "input" (at      *)
(*                        input()), "reply" (between the two add calls of  *)
(*                        a turn), "emit" (between the second add and the  *)
(*                        printing of the response), "terminated",         *)
(*                        "crashed"; functions: "called", then "analyzed",  *)
(*                        "classified" or "responded"                      *)
(*   exc                  the exception that left the last call            *)
(*   user_input           main's local: the stripped line read last        *)
(*   sentiment, intent,   main's locals of the same names, the empty       *)
(*   response             string while unassigned                          *)
(*   out                  what the last step printed                       *)
(*   exitCode             exit status of the process, -1 while it runs     *)
(*   op                   the last ConversationHistory call and its        *)
(*                        persistence outcome; recovers says that its      *)
(*                        write succeeded after the write of the call      *)
(*                        before it had failed                             *)
(*   log, logFromEmpty    the turns passed to add since the history was    *)
(*                        last constructed or cleared, and whether it was  *)
(*                        empty at that point                              *)
(*   nInputs              number of lines read                             *)
(*   file0                the file when the process started                *)
(***************************************************************************)
VARIABLES max_size, messages, file, pc, exc, user_input, out, exitCode,
          op, log, logFromEmpty, nInputs, file0, sentiment, intent, response

vars == <<max_size, messages, file, pc, exc, user_input, out, exitCode,
          op, log, logFromEmpty, nInputs, file0, sentiment, intent, response>>

locals == <<sentiment, intent, response>>

NoTurn == <<>>
Op(name, turn, warned, saves) ==
    [name |-> name, turn |-> turn, warned |-> warned, saves |-> saves,
     recovers |-> FALSE]

\* the record of an add or clear call that follows the call recorded in op
NextOp(name, turn, o) ==
    [Op(name, turn, o.warned, o.saves) EXCEPT !.recovers = op.warned /\ ~o.warned]

Printed(kind, text) == [kind |-> kind, text |-> text]
\* print(f"Warning: Could not save history: {e}"), once per failed save
Warnings(o) == IF o.warned THEN <<Printed("warning", <<>>)>> ELSE <<>>

(***************************************************************************)
(* Files and turns the specifications start from and draw from.           *)
(***************************************************************************)
TurnA == <<STR_user, <<"a">>, STR_positive>>
TurnB == <<STR_bot, <<"b">>, STR_neutral>>
TurnC == <<STR_user, <<"c">>, STR_negative>>
StoreTurns == {TurnA, TurnB, TurnC}

Rec(fields) == JArray([k \in 1..Len(fields) |-> JString(fields[k])])

\* well-formed files: the first n records of A B C A B C ...
WellFormed(n) ==
    JsonFile(JArray([i \in 1..n |-> Rec(<<TurnA, TurnB, TurnC>>[((i - 1) % 3) + 1])]))

WellFormedFiles == {WellFormed(n) : n \in 0..(MaxCapacity + 1)}

MalformedRecordFiles ==
    { JsonFile(JArray(<<Rec(TurnA), Rec(<<STR_bot, <<"b">>>>)>>)),
      JsonFile(JArray(<<Rec(<<STR_user, <<"a">>, STR_positive, <<"x">>>>)>>)),
      JsonFile(JArray(<<Rec(TurnA), Rec(<<STR_user>>)>>)),
      JsonFile(JArray(<<Rec(<<>>)>>)),
      JsonFile(JArray(<<JNumber>>)),
      JsonFile(JArray(<<JObject(<<<<"s">>, <<"t">>, <<"m">>>>)>>)),
      JsonFile(JArray(<<JObject(<<<<"s">>, <<"t">>>>)>>)),
      JsonFile(JArray(<<JString(<<"a", "b", "c">>)>>)),
      JsonFile(JArray(<<JString(<<"a", "b">>)>>)) }

NotAnArrayFiles ==
    { JsonFile(JNumber), JsonFile(JNull), JsonFile(JObject(<<<<"a">>>>)),
      JsonFile(JString(<<>>)), JsonFile(JString(<<"a", "b">>)) }

StoreFiles ==
    {AbsentFile, UnreadableFile, UndecodableFile, InvalidFile}
    \cup WellFormedFiles \cup MalformedRecordFiles \cup NotAnArrayFiles

(***************************************************************************)
(* The ConversationHistory on its own: constructed with any capacity over *)
(* any file, then used through add and clear; the process may end and a   *)
(* new ConversationHistory be constructed over the file it left.          *)
(***************************************************************************)
InitCommon ==
    /\ messages = <<>>
    /\ pc = "new"
    /\ exc = "none"
    /\ user_input = <<>>
    /\ out = <<>>
    /\ exitCode = -1
    /\ op = Op("none", NoTurn, FALSE, 0)
    /\ log = <<>>
    /\ logFromEmpty = FALSE
    /\ nInputs = 0
    /\ file0 = file
    /\ sentiment = <<>>
    /\ intent = <<>>
    /\ response = <<>>

\* __init__ takes max_size unchecked; capacity 0 is a value it accepts
InitStore ==
    /\ max_size \in 0..MaxCapacity
    /\ file \in StoreFiles
    /\ InitCommon

\* variant of Load: the file is rewritten with what was loaded
Load_Rewrite(next) ==
    LET r == load_from_file(file, max_size, <<>>) IN
    /\ messages' = r.messages
    /\ exc' = r.exc
    /\ pc' = IF r.exc = "none" THEN next ELSE IF next = "ready" THEN "raised" ELSE "crashed"
    /\ op' = Op("load", NoTurn, FALSE, 0)
    /\ log' = <<>>
    /\ logFromEmpty' = (r.exc = "none" /\ r.messages = <<>>)
    /\ file' = IF file.kind = "absent" THEN file ELSE JsonFile(JsonDump(r.messages))
    /\ UNCHANGED max_size

\* ConversationHistory.__init__ calling load_from_file
Load(next) ==
    LET r == load_from_file(file, max_size, <<>>) IN
    /\ messages' = r.messages
    /\ exc' = r.exc
    /\ pc' = IF r.exc = "none" THEN next ELSE IF next = "ready" THEN "raised" ELSE "crashed"
    /\ op' = Op("load", NoTurn, FALSE, 0)
    /\ log' = <<>>
    /\ logFromEmpty' = (r.exc = "none" /\ r.messages = <<>>)
    /\ UNCHANGED <<max_size, file>>

StoreConstruct ==
    /\ pc = "new"
    /\ Load("ready")
    /\ UNCHANGED <<user_input, out, exitCode, nInputs, file0, locals>>

\* the process ends and the next one constructs its history over the file
StoreRestart ==
    /\ pc = "ready"
    /\ Load("ready")
    /\ UNCHANGED <<user_input, out, exitCode, nInputs, file0, locals>>

\* history.add(speaker, text, sentiment) with its effect on the state
Add(turn) ==
    \E o \in add(messages, file, turn, max_size) :
        /\ messages' = o.messages
        /\ file' = o.file
        /\ op' = NextOp("add", turn, o)
        /\ log' = Append(log, turn)
        /\ UNCHANGED <<max_size, exc, logFromEmpty>>

\* history.clear() with its effect on the state
Clear ==
    \E o \in clear(messages, file) :
        /\ messages' = o.messages
        /\ file' = o.file
        /\ op' = NextOp("clear", NoTurn, o)
        /\ log' = <<>>
        /\ logFromEmpty' = TRUE
        /\ UNCHANGED <<max_size, exc>>

StoreAdd ==
    /\ pc = "ready"
    /\ Len(log) < MaxAdds
    /\ \E turn \in StoreTurns : Add(turn)
    /\ out' = Warnings(op')
    /\ UNCHANGED <<pc, user_input, exitCode, nInputs, file0, locals>>

StoreClear ==
    /\ pc = "ready"
    /\ Clear
    /\ out' = Warnings(op')
    /\ UNCHANGED <<pc, user_input, exitCode, nInputs, file0, locals>>

NextStore == StoreConstruct \/ StoreRestart \/ StoreAdd \/ StoreClear

SpecStore == InitStore /\ [][NextStore]_vars

(***************************************************************************)
(* main: the session.                                                      *)
(***************************************************************************)
\* lines input() returns in the modelled sessions
SessionLines ==
    { <<>>,
      <<" ", " ">>,
      <<"e","x","i","t">>,
      <<" ","B","y","e"," ">>,
      <<"h","i","s","t","o","r","y">>,
      <<"H","i","s","t","o","r","y">>,
      <<"c","l","e","a","r">>,
      <<" ","C","L","E","A","R">>,
      <<"h","i">>,
      <<"g","o","o","d">> }

SessionFiles ==
    { AbsentFile, InvalidFile, WellFormed(1), WellFormed(SessionCapacity + 1),
      JsonFile(JNull) }

Init ==
    /\ max_size = SessionCapacity
    /\ file \in SessionFiles
    /\ InitCommon

\* variant of Branch: the exit keywords are compared without lower()
Branch_CaseSensitive(u) ==
    IF u = <<>> THEN "blank"
    ELSE IF u \in EXIT_KEYWORDS THEN "exit"
    ELSE IF lower(u) = STR_history THEN "history"
    ELSE IF lower(u) = STR_clear THEN "clear"
    ELSE "turn"

\* variant of Branch: a blank line is not set apart
Branch_NoBlank(u) ==
    IF lower(u) \in EXIT_KEYWORDS THEN "exit"
    ELSE IF lower(u) = STR_history THEN "history"
    ELSE IF lower(u) = STR_clear THEN "clear"
    ELSE "turn"

\* the branch of the loop body taken for the stripped line u, in the order
\* the body tests them
Branch(u) ==
    IF u = <<>> THEN "blank"
    ELSE IF lower(u) \in EXIT_KEYWORDS THEN "exit"
    ELSE IF lower(u) = STR_history THEN "history"
    ELSE IF lower(u) = STR_clear THEN "clear"
    ELSE "turn"

\* print banner; history = ConversationHistory().  The call is outside the
\* try block: an exception of load_from_file ends the process with status 1.
Construct ==
    /\ pc = "new"
    /\ Load("input")
    /\ out' = <<Printed("banner", BANNER)>>
    /\ exitCode' = IF exc' = "none" THEN -1 ELSE 1
    /\ UNCHANGED <<user_input, nInputs, file0, locals>>

\* user_input = input("You: ").strip(), taking the given branch
Read(branch) ==
    /\ pc = "input"
    /\ nInputs < MaxInputs
    /\ \E line \in SessionLines :
          /\ Branch(strip(line, WHITESPACE)) = branch
          /\ user_input' = strip(line, WHITESPACE)
    /\ nInputs' = nInputs + 1
    /\ UNCHANGED file0

NoStoreCall ==
    /\ op' = Op("none", NoTurn, FALSE, 0)
    /\ UNCHANGED <<max_size, messages, file, exc, log, logFromEmpty>>

Blank ==
    /\ Read("blank")
    /\ NoStoreCall
    /\ out' = <<Printed("bot", LISTENING)>>
    /\ UNCHANGED <<pc, exitCode, locals>>

\* break leaves the loop and main returns: exit status 0
Exit ==
    /\ Read("exit")
    /\ NoStoreCall
    /\ out' = <<Printed("bot", FAREWELL)>>
    /\ pc' = "terminated"
    /\ exitCode' = 0
    /\ UNCHANGED locals

\* variant of HistoryCommand: the command is recorded before the display
HistoryCommand_AddFirst ==
    /\ Read("history")
    /\ sentiment' = analyze_sentiment(user_input')
    /\ Add(<<STR_user, user_input', sentiment'>>)
    /\ out' = Warnings(op') \o <<Printed("bot", display(messages'))>>
    /\ UNCHANGED <<pc, exitCode, intent, response>>

\* print the display, then record the command itself as a user turn
HistoryCommand ==
    /\ Read("history")
    /\ sentiment' = analyze_sentiment(user_input')
    /\ Add(<<STR_user, user_input', sentiment'>>)
    /\ out' = <<Printed("bot", display(messages))>> \o Warnings(op')
    /\ UNCHANGED <<pc, exitCode, intent, response>>

ClearCommand ==
    /\ Read("clear")
    /\ Clear
    /\ out' = Warnings(op') \o <<Printed("bot", CLEARED)>>
    /\ UNCHANGED <<pc, exitCode, locals>>

\* first part of a normal turn: sentiment, intent,
\* history.add("user", user_input, sentiment)
UserTurn ==
    /\ Read("turn")
    /\ sentiment' = analyze_sentiment(user_input')
    /\ intent' = classify_intent(user_input')
    /\ Add(<<STR_user, user_input', sentiment'>>)
    /\ out' = Warnings(op')
    /\ pc' = "reply"
    /\ UNCHANGED <<exitCode, response>>

\* variant of BotTurn: the bot turn carries the sentiment of the user turn
BotTurn_UserSentiment ==
    /\ pc = "reply"
    /\ response' \in get_response(user_input, sentiment, intent)
    /\ Add(<<STR_bot, response', sentiment>>)
    /\ out' = Warnings(op')
    /\ pc' = "emit"
    /\ UNCHANGED <<user_input, exitCode, nInputs, file0, sentiment, intent>>

\* second part: response = get_response(user_input, sentiment, intent),
\* history.add("bot", response, "neutral")
BotTurn ==
    /\ pc = "reply"
    /\ response' \in get_response(user_input, sentiment, intent)
    /\ Add(<<STR_bot, response', STR_neutral>>)
    /\ out' = Warnings(op')
    /\ pc' = "emit"
    /\ UNCHANGED <<user_input, exitCode, nInputs, file0, sentiment, intent>>

\* third part: print("Bot: "), typing_effect(response)
Emit ==
    /\ pc = "emit"
    /\ NoStoreCall
    /\ out' = <<Printed("bot", response)>>
    /\ pc' = "input"
    /\ UNCHANGED <<user_input, exitCode, nInputs, file0, locals>>

\* KeyboardInterrupt or EOFError inside the try block, between two parts of
\* the loop body: farewell, sys.exit(0)
Interrupt ==
    /\ pc \in {"input", "reply", "emit"}
    /\ NoStoreCall
    /\ out' = <<Printed("bot", FAREWELL)>>
    /\ pc' = "terminated"
    /\ exitCode' = 0
    /\ UNCHANGED <<user_input, nInputs, file0, locals>>

Next ==
    \/ Construct
    \/ Blank
    \/ Exit
    \/ HistoryCommand
    \/ ClearCommand
    \/ UserTurn
    \/ BotTurn
    \/ Emit
    \/ Interrupt

Spec == Init /\ [][Next]_vars

(***************************************************************************)
(* The functions on their own: one call of analyze_sentiment,             *)
(* classify_intent or get_response on a message; get_response with any    *)
(* sentiment and intent argument and any draw of random.choice.           *)
(***************************************************************************)
\* number of words of the composed messages
MaxTokens == 3

FunctionWords ==
    { <<"h","e","l","p">>,
      <<"H","I">>,
      <<"w","h","y">>,
      <<"o","k","?">>,
      <<"g","o","o","d">>,
      <<"b","a","d","!">>,
      <<"t","h","i","s">>,
      <<"t","h","a","n","k","s">>,
      <<"t","h","a","n","k">>,
      <<"y","o","u">> }

RECURSIVE JoinWords(_)
JoinWords(ws) ==
    IF ws = <<>> THEN <<>>
    ELSE IF Len(ws) = 1 THEN ws[1]
    ELSE ws[1] \o <<" ">> \o JoinWords(Tail(ws))

\* messages with irregular spacing, punctuation and letter case
OtherMessages ==
    { <<" "," ">>,
      <<" ","g","o","o","d"," ">>,
      <<"w","h","y","?"," ">>,
      <<"w","h","a","t"," ","i","s"," ","y","o","u","r"," ","n","a","m","e","?">>,
      <<"h","e","l","l","o"," ","t","h","e","r","e">>,
      <<"h","i","s","t","o","r","y">>,
      <<"t","h","e"," ","w","e","a","t","h","e","r"," ","i","s"," ","n","i","c","e">>,
      <<"I"," ","l","o","v","e"," ","t","h","i","s",","," ","i","t"," ","i","s"," ","g","r","e","a","t","!">>,
      <<"t","h","i","s"," ","i","s"," ","t","e","r","r","i","b","l","e"," ","a","n","d"," ","a","w","f","u","l">>,
      <<"t","h","e"," ","s","k","y"," ","i","s"," ","b","l","u","e">>,
      <<"h","e","y"," ","w","h","a","t"," ","d","o","e","s"," ","H","E","L","P"," ","d","o"," ","?">>,
      <<"G","o","o","d",","," ","B","A","D",";"," ","s","a","d",".",".","."," ","g","r","e","a","t">>,
      <<"g","o","o","d","b","y","e","b","i","r","d">> }

FunctionMessages ==
    {JoinWords(ws) : ws \in UNION {[1..n -> FunctionWords] : n \in 0..MaxTokens}}
    \cup OtherMessages

SENTIMENTS == {STR_positive, STR_negative, STR_neutral}

INTENTS == {STR_question, STR_greeting, STR_command, STR_statement}

InitFunctions ==
    /\ user_input \in FunctionMessages
    /\ pc = "called"
    /\ max_size = 0
    /\ messages = <<>>
    /\ file = AbsentFile
    /\ exc = "none"
    /\ out = <<>>
    /\ exitCode = -1
    /\ op = Op("none", NoTurn, FALSE, 0)
    /\ log = <<>>
    /\ logFromEmpty = FALSE
    /\ nInputs = 0
    /\ file0 = file
    /\ sentiment = <<>>
    /\ intent = <<>>
    /\ response = <<>>

FunctionFrame ==
    UNCHANGED <<max_size, messages, file, exc, user_input, out, exitCode, op,
                log, logFromEmpty, nInputs, file0>>

CallAnalyzeSentiment ==
    /\ pc = "called"
    /\ sentiment' = analyze_sentiment(user_input)
    /\ pc' = "analyzed"
    /\ FunctionFrame
    /\ UNCHANGED <<intent, response>>

CallClassifyIntent ==
    /\ pc = "called"
    /\ intent' = classify_intent(user_input)
    /\ pc' = "classified"
    /\ FunctionFrame
    /\ UNCHANGED <<sentiment, response>>

CallGetResponse ==
    /\ pc = "called"
    /\ sentiment' \in SENTIMENTS
    /\ intent' \in INTENTS
    /\ response' \in get_response(user_input, sentiment', intent')
    /\ pc' = "responded"
    /\ FunctionFrame

NextFunctions == CallAnalyzeSentiment \/ CallClassifyIntent \/ CallGetResponse

SpecFunctions == InitFunctions /\ [][NextFunctions]_vars

(***************************************************************************)
(* Properties.                                                             *)
(***************************************************************************)
\* the turns a written file holds, as load_from_file would read them
FileTurns(f) ==
    IF f.kind = "json" /\ f.data.t = "array"
    THEN [i \in 1..Len(f.data.v) |->
            [k \in 1..Len(f.data.v[i].v) |-> f.data.v[i].v[k].v]]
    ELSE <<>>

ZeroRecords(f) == f.kind = "json" /\ f.data = JArray(<<>>)

WarningCount(o) == Cardinality({i \in 1..Len(o) : o[i].kind = "warning"})

\* the step reads a line whose stripped, lowercased form is in the set words
ReadsOneOf(words) ==
    /\ pc = "input"
    /\ nInputs' = nInputs + 1
    /\ lower(user_input') \in words

\* C1: after construction and after any add or clear, the history holds at
\* most max_size turns.
C1_CapacityBound ==
    pc = "ready" => Len(messages) <= max_size

\* C2: starting from an empty history, once max_size or more turns have
\* been added the history has exactly max_size turns, and they are the last
\* max_size turns added, in the order they were added.
C2_FifoEviction ==
    (pc = "ready" /\ logFromEmpty /\ Len(log) >= max_size)
        => /\ Len(messages) = max_size
           /\ messages = SubSeq(log, Len(log) - max_size + 1, Len(log))

C2_Witness ==
    /\ pc = "ready"
    /\ logFromEmpty
    /\ max_size >= 2
    /\ Len(log) >= max_size + 2
    /\ log[Len(log)] # log[Len(log) - 1]

\* C3: after an add or a clear whose write succeeded, the file holds exactly
\* the turns of the in-memory history, in the same order.
C3_WriteThrough ==
    (op.name \in {"add", "clear"} /\ ~op.warned)
        => /\ file.kind = "json"
           /\ FileTurns(file) = messages

C3_Witness ==
    /\ pc = "ready"
    /\ op.name = "add"
    /\ ~op.warned
    /\ max_size >= 1
    /\ logFromEmpty
    /\ Len(log) > max_size

\* C4: constructing a ConversationHistory of the same capacity over the file
\* a successful add or clear has just written yields the same turns in the
\* same order, and raises nothing.
C4_RoundTrip ==
    [][(pc = "ready" /\ op.name \in {"add", "clear"} /\ ~op.warned
          /\ op'.name = "load")
        => (exc' = "none" /\ messages' = messages)]_vars

C4_Witness ==
    /\ pc = "ready"
    /\ op.name = "load"
    /\ file # file0
    /\ file.kind = "json"
    /\ Len(messages) >= 2
    /\ \E i \in 1..Len(messages) : messages[i][3] # STR_neutral

\* C5: when the file is absent, unreadable, or not a sequence of records in
\* the persisted format, load raises nothing and leaves an empty history.
NotARecordSequence(f) ==
    \/ f.kind \in {"absent", "unreadable", "undecodable", "invalid"}
    \/ f.data.t # "array"

C5_LoadNeverRaises ==
    (op.name = "load" /\ NotARecordSequence(file))
        => (exc = "none" /\ pc = "ready" /\ messages = <<>>)

C7_ExitFirst ==
    (file0 = AbsentFile /\ pc = "terminated" /\ nInputs = 1
       /\ user_input = <<"e","x","i","t">>)
        => (exitCode = 0 /\ ZeroRecords(file))

\* C8 as amended: the input "clear" in any letter case empties the history
\* and, when the write succeeds, leaves a file with zero records; "history"
\* as the next input prints the no-history message.
C8_Clear ==
    [][/\ ReadsOneOf({STR_clear})
          => /\ op'.name = "clear"
             /\ messages' = <<>>
             /\ ~op'.warned => ZeroRecords(file')
             /\ pc' = "input"
       /\ (op.name = "clear" /\ ReadsOneOf({STR_history}))
          => out'[1] = Printed("bot", NO_HISTORY)]_vars

C8_Witness ==
    /\ pc = "input"
    /\ file0 = WellFormed(1)
    /\ logFromEmpty
    /\ Len(log) = 1
    /\ lower(user_input) = STR_history
    /\ user_input # STR_history
    /\ out[1] = Printed("bot", NO_HISTORY)
    /\ ZeroRecords(file0) = FALSE

\* C8 as stated: the input "clear" empties the history and leaves a file
\* with zero records; "history" as the next input prints the no-history
\* message.
C8_Original ==
    [][/\ ReadsOneOf({STR_clear})
          => /\ messages' = <<>>
             /\ ZeroRecords(file')
             /\ pc' = "input"
       /\ (op.name = "clear" /\ ReadsOneOf({STR_history}))
          => out'[1] = Printed("bot", NO_HISTORY)]_vars

\* C9: an input equal to an exit keyword in any letter case ends the
\* session without touching the history or the file, whatever the other
\* branches would do with it, and nothing is processed after termination.
C9_ExitKeyword ==
    [][/\ ReadsOneOf(EXIT_KEYWORDS)
          => /\ pc' = "terminated"
             /\ op'.name = "none"
             /\ messages' = messages
             /\ file' = file
             /\ out' = <<Printed("bot", FAREWELL)>>
       /\ pc = "terminated"
          => /\ pc' = "terminated"
             /\ nInputs' = nInputs
             /\ messages' = messages
             /\ file' = file]_vars

C9_Witness ==
    /\ pc = "terminated"
    /\ lower(user_input) \in EXIT_KEYWORDS
    /\ user_input # lower(user_input)
    /\ messages # <<>>
    /\ nInputs >= 2

\* C10: a malformed record among those load retains never makes load raise
\* and is never dropped: it is kept with sentiment neutral.
\* a record that is a JSON array without exactly three fields
Malformed(rec) == rec.t = "array" /\ Len(rec.v) # 3

C10_MalformedKept ==
    LET part == LastSlice(file.data.v, max_size) IN
    (op.name = "load" /\ file.kind = "json" /\ file.data.t = "array"
       /\ \E i \in 1..Len(part) : Malformed(part[i]))
        => /\ exc = "none"
           /\ Len(messages) = Len(part)
           /\ \A i \in 1..Len(part) :
                 Malformed(part[i]) => messages[i][3] = STR_neutral

\* the lowercase whitespace-separated tokens of a message
TokensOf(message) == split(lower(message))

HasToken(message, lexicon) ==
    \E i \in 1..Len(TokensOf(message)) : TokensOf(message)[i] \in lexicon

EndsWithQuestionMark(message) ==
    message # <<>> /\ message[Len(message)] = "?"

\* C11: classify_intent gives command when a token is a command word, else
\* greeting when a token is a greeting word, else question when a token is a
\* question word or the message ends with "?", else statement.
C11_IntentPrecedence ==
    pc = "classified"
        => intent = IF HasToken(user_input, COMMAND_WORDS) THEN STR_command
                    ELSE IF HasToken(user_input, GREETING_WORDS) THEN STR_greeting
                    ELSE IF \/ HasToken(user_input, QUESTION_WORDS)
                            \/ EndsWithQuestionMark(user_input)
                         THEN STR_question
                    ELSE STR_statement

C11_Witness ==
    /\ pc = "classified"
    /\ intent = STR_command
    /\ HasToken(user_input, GREETING_WORDS)
    /\ HasToken(user_input, QUESTION_WORDS)
    /\ EndsWithQuestionMark(user_input)
    /\ user_input # lower(user_input)

\* the number of tokens that, stripped of punctuation, are in the lexicon
RECURSIVE LexiconCount(_, _)
LexiconCount(tokens, lexicon) ==
    IF tokens = <<>> THEN 0
    ELSE (IF strip(Head(tokens), PUNCTUATION) \in lexicon THEN 1 ELSE 0)
         + LexiconCount(Tail(tokens), lexicon)

PositiveCount(message) == LexiconCount(TokensOf(message), POSITIVE_WORDS)
NegativeCount(message) == LexiconCount(TokensOf(message), NEGATIVE_WORDS)

\* C12: analyze_sentiment returns positive exactly when the positive count
\* exceeds the negative count, negative exactly when the negative count
\* exceeds the positive count, and neutral in every other case.
C12_SentimentByCounts ==
    pc = "analyzed"
        => /\ sentiment \in SENTIMENTS
           /\ sentiment = STR_positive
                 <=> PositiveCount(user_input) > NegativeCount(user_input)
           /\ sentiment = STR_negative
                 <=> NegativeCount(user_input) > PositiveCount(user_input)
           /\ sentiment = STR_neutral
                 <=> PositiveCount(user_input) = NegativeCount(user_input)

C12_Witness ==
    /\ pc = "analyzed"
    /\ sentiment = STR_neutral
    /\ PositiveCount(user_input) >= 1
    /\ PositiveCount(user_input) = NegativeCount(user_input)

\* the keys of the keyword table found in the lowercased message
KeysIn(message) ==
    {i \in 1..Len(RESPONSES) : Contains(RESPONSES[i][1], lower(message))}

\* C13: for a message that is not blank and contains a key of the keyword
\* table, get_response returns the response of the first such key of the
\* table, whatever the sentiment, the intent and the random draw.
C13_KeywordResponse ==
    (pc = "responded" /\ strip(user_input, WHITESPACE) # <<>>
       /\ KeysIn(user_input) # {})
        => \E i \in KeysIn(user_input) :
              /\ \A j \in KeysIn(user_input) : i <= j
              /\ response = RESPONSES[i][2]

C13_Witness ==
    /\ pc = "responded"
    /\ Cardinality(KeysIn(user_input)) >= 2
    /\ intent = STR_question
    /\ sentiment = STR_negative
    /\ classify_intent(user_input) = STR_question
    /\ response = RESPONSES[2][2]

\* a step that ends the session from the middle of a normal turn: after the
\* user turn was recorded, or after the bot turn was recorded and before it
\* was emitted
InterruptsTurn ==
    /\ pc \in {"reply", "emit"}
    /\ pc' = "terminated"

\* the file lacks at most a final bot turn of the history msgs
LacksAtMostBotTurn(f, msgs) ==
    \A i \in 1..Len(msgs) :
        \/ i = Len(msgs) /\ msgs[i][1] = STR_bot
        \/ \E j \in 1..Len(FileTurns(f)) : FileTurns(f)[j] = msgs[i]

\* C14 as stated: whenever the session is interrupted between two steps of
\* a normal turn, every turn of the in-memory history other than a final bot
\* turn is in the file.
C14_Original ==
    [][InterruptsTurn => LacksAtMostBotTurn(file', messages')]_vars

\* C14: when the session is interrupted between two steps of a normal turn
\* and the write of the most recent add succeeded, the interrupt leaves the
\* file alone and the file holds exactly the in-memory history, so that it
\* lacks at most a bot turn that was not recorded yet; the user turn of the
\* interrupted exchange is in it.
C14_InterruptedTurn ==
    [][(InterruptsTurn /\ ~op.warned)
          => /\ file' = file
             /\ messages' = messages
             /\ LacksAtMostBotTurn(file', messages')
             /\ FileTurns(file') = messages'
             /\ \E j \in 1..Len(FileTurns(file')) :
                   FileTurns(file')[j] = <<STR_user, user_input, sentiment>>]_vars

C14_Witness ==
    /\ pc = "terminated"
    /\ Branch(user_input) = "turn"
    /\ messages # <<>>
    /\ messages[Len(messages)] = <<STR_user, user_input, sentiment>>
    /\ FileTurns(file) = messages
    /\ Len(messages) = max_size
    /\ nInputs >= 2

\* a step that reads a line which is neither blank, an exit keyword,
\* history nor clear
ReadsNormalInput ==
    /\ pc = "input"
    /\ nInputs' = nInputs + 1
    /\ user_input' # <<>>
    /\ lower(user_input') \notin EXIT_KEYWORDS \cup {STR_history, STR_clear}

\* C15: an input that is neither blank, an exit keyword, history nor clear
\* makes the loop append the user turn with the input and its computed
\* sentiment, then the bot turn with the selected response and sentiment
\* neutral, then emit that response and read the next line; nothing else is
\* appended.
C15_NormalTurn ==
    [][/\ ReadsNormalInput
          => /\ pc' = "reply"
             /\ op'.name = "add"
             /\ log' = Append(log, <<STR_user, user_input',
                                     analyze_sentiment(user_input')>>)
             /\ messages' = LastSlice(Append(messages, log'[Len(log')]), max_size)
       /\ (pc = "reply" /\ pc' # "terminated")
          => /\ pc' = "emit"
             /\ op'.name = "add"
             /\ response' \in get_response(user_input,
                                  analyze_sentiment(user_input),
                                  classify_intent(user_input))
             /\ log' = Append(log, <<STR_bot, response', STR_neutral>>)
             /\ messages' = LastSlice(Append(messages, log'[Len(log')]), max_size)
             /\ log'[Len(log') - 1][1] = STR_user
             /\ log'[Len(log') - 1][2] = user_input
       /\ (pc = "emit" /\ pc' # "terminated")
          => /\ pc' = "input"
             /\ out' = <<Printed("bot", response)>>
             /\ log' = log
             /\ messages' = messages]_vars

C15_Witness ==
    /\ pc = "input"
    /\ out = <<Printed("bot", response)>>
    /\ Len(log) >= 2
    /\ log[Len(log) - 1] = <<STR_user, user_input, STR_positive>>
    /\ log[Len(log)] = <<STR_bot, response, STR_neutral>>
    /\ messages = <<log[Len(log) - 1], log[Len(log)]>>
    /\ nInputs >= 2

\* C16: the history command prints the display of the history as it was
\* before the command, then appends one user turn with the command text and
\* sentiment neutral; no bot turn is appended and the loop reads the next
\* line.
C16_HistoryCommand ==
    [][ReadsOneOf({STR_history})
          => /\ Len(out') >= 1
             /\ out'[1] = Printed("bot", display(messages))
             /\ op'.name = "add"
             /\ log' = Append(log, <<STR_user, user_input', STR_neutral>>)
             /\ messages' = LastSlice(Append(messages, log'[Len(log')]), max_size)
             /\ pc' = "input"]_vars

C16_Witness ==
    /\ pc = "input"
    /\ lower(user_input) = STR_history
    /\ user_input # STR_history
    /\ Len(out) >= 1
    /\ out[1].kind = "bot"
    /\ out[1].text # NO_HISTORY
    /\ out[1].text # display(messages)
    /\ messages[Len(messages)] = <<STR_user, user_input, STR_neutral>>
    /\ Len(log) >= 3

\* C17: a blank line, empty or made of whitespace only, changes neither the
\* in-memory history nor the file, and the loop reads the next line.
C17_BlankInput ==
    [][(pc = "input" /\ nInputs' = nInputs + 1 /\ user_input' = <<>>)
          => /\ messages' = messages
             /\ file' = file
             /\ log' = log
             /\ op'.name = "none"
             /\ pc' = "input"]_vars

C17_Witness ==
    /\ pc = "input"
    /\ user_input = <<>>
    /\ out = <<Printed("bot", LISTENING)>>
    /\ messages # <<>>
    /\ FileTurns(file) = messages
    /\ nInputs >= 2

\* C18: load leaves the file as it was, whether the file is corrupt or
\* holds more records than the capacity.
C18_LoadKeepsFile ==
    [][op'.name = "load" => file' = file]_vars

C18_Witness ==
    /\ op.name = "load"
    /\ exc = "none"
    /\ max_size >= 1
    /\ file.kind = "json"
    /\ file.data.t = "array"
    /\ Len(file.data.v) > max_size
    /\ Len(messages) = max_size

\* C19: the first add or clear whose write succeeds after a failed write
\* makes the file hold exactly the in-memory history; a turn added while the
\* write failed is in the file when the capacity still keeps it.
C19_Recovery ==
    op.recovers
        => /\ op.name \in {"add", "clear"}
           /\ file.kind = "json"
           /\ Len(file.data.v) = Len(messages)
           /\ FileTurns(file) = messages
           /\ (op.name = "add" /\ Len(log) >= 2 /\ max_size >= 2)
                 => FileTurns(file)[Len(messages) - 1] = log[Len(log) - 1]

C19_Witness ==
    /\ op.recovers
    /\ op.name = "add"
    /\ Len(log) >= 3
    /\ max_size = 2
    /\ FileTurns(file) = messages
    /\ messages = <<log[Len(log) - 1], log[Len(log)]>>
====
